---- MODULE Spec2Model ----
(***************************************************************************)
(* Model of src/lab5.ipynb: get_neighbors and simulate_diffusion.          *)
(*                                                                         *)
(* Grid entries and K are exact rationals <<numerator, denominator>> kept  *)
(* in lowest terms.  Every input enumerated below is a dyadic rational of  *)
(* small magnitude, and so is every value computed from it within the      *)
(* bounds, so numpy's float64 arithmetic on these inputs is exact and      *)
(* agrees with the rational arithmetic of the model.  Grids are float      *)
(* arrays, as the docstring of simulate_diffusion requires (np.array of a  *)
(* list of Python ints would be an integer array).                         *)
(*                                                                         *)
(* Python indices are 0-based: a grid is a function on                     *)
(* (0..M-1) \X (0..N-1).  The list `history` is a sequence, so Python's    *)
(* history[t] is history[t+1] here (see Snap).                             *)
(***************************************************************************)
EXTENDS Integers, Sequences, FiniteSets

\* ---------------------------------------------------------------- bounds

\* Grids have 1..MaxDim rows and 1..MaxDim columns.
MaxDim == 3

\* T ranges over 0..MaxT.
MaxT == 2

\* A sparse non-negative initial grid holds at most MaxMass units of mass.
MaxMass == 1

\* ------------------------------------------------------- exact rationals

\* The one value of the expression whose values form the set S.  The
\* operators below name their operands through it (p is the pair of the
\* operands, L their common denominator, g a greatest common divisor), so
\* that an operand is evaluated once however often the body uses it.
The(S) == CHOOSE x \in S : TRUE

Abs(x) == IF x < 0 THEN -x ELSE x

RECURSIVE GCD(_, _)
GCD(a, b) ==
    The({IF p[2] = 0 THEN p[1]
         ELSE IF p[1] % p[2] = 0 THEN p[2]
         ELSE GCD(p[2], p[1] % p[2]) : p \in {<<a, b>>}})

\* The rational n/d (d > 0) in lowest terms.
Rat(n, d) ==
    The({IF p[2] = 1 THEN p
         ELSE The({<<p[1] \div g, p[2] \div g>> : g \in {GCD(Abs(p[1]), p[2])}})
         : p \in {<<n, d>>}})

Zero == <<0, 1>>

One == <<1, 1>>

\* The least common denominator of a and b.
CommonDen(a, b) == (a[2] \div GCD(a[2], b[2])) * b[2]

\* Numerator of a over the denominator L (a multiple of a[2]).
NumOver(a, L) == a[1] * (L \div a[2])

RAdd(a, b) ==
    The({IF p[1][1] = 0 THEN p[2]
         ELSE IF p[2][1] = 0 THEN p[1]
         ELSE IF p[1][2] = p[2][2] THEN Rat(p[1][1] + p[2][1], p[1][2])
         ELSE The({Rat(NumOver(p[1], L) + NumOver(p[2], L), L) :
                       L \in {CommonDen(p[1], p[2])}})
         : p \in {<<a, b>>}})

RSub(a, b) ==
    The({IF p[1][2] = p[2][2] THEN Rat(p[1][1] - p[2][1], p[1][2])
         ELSE The({Rat(NumOver(p[1], L) - NumOver(p[2], L), L) :
                       L \in {CommonDen(p[1], p[2])}})
         : p \in {<<a, b>>}})

RMul(a, b) ==
    The({IF p[1][1] = 0 \/ p[2][1] = 0 THEN Zero
         ELSE Rat(p[1][1] * p[2][1], p[1][2] * p[2][2]) : p \in {<<a, b>>}})

\* a / b for b > 0.
RDiv(a, b) ==
    The({Rat(p[1][1] * p[2][2], p[1][2] * p[2][1]) : p \in {<<a, b>>}})

RLe(a, b) ==
    The({IF p[1][2] = p[2][2] THEN p[1][1] <= p[2][1]
         ELSE The({NumOver(p[1], L) <= NumOver(p[2], L) :
                       L \in {CommonDen(p[1], p[2])}})
         : p \in {<<a, b>>}})

RLt(a, b) == RLe(a, b) /\ a # b

\* Python's sum(...) of a list: starts from 0 and adds from left to right.
RECURSIVE SumFirst(_, _)
SumFirst(s, n) == IF n = 0 THEN Zero ELSE RAdd(SumFirst(s, n - 1), s[n])

SumSeq(s) == The({SumFirst(x, Len(x)) : x \in {s}})

\* ------------------------------------------------------------ the program

\* The index pairs of an M x N array.
Cells(m, n) == (0 .. m - 1) \X (0 .. n - 1)

\* The values di and dj range over, in the order of the loops.
Offsets == <<-1, 0, 1>>

\* The fixed divisor of the update rule.
Divisor == 8

\* The pairs (di, dj) in the order the nested loops visit them.
OffsetPairs ==
    [k \in 1 .. Len(Offsets) * Len(Offsets) |->
        <<Offsets[((k - 1) \div Len(Offsets)) + 1],
          Offsets[((k - 1) % Len(Offsets)) + 1]>>]

OffsetAt(k) == OffsetPairs[k]

\* get_neighbors without the `continue` that skips the offset (0,0).
RECURSIVE ScanOffsets_WithSelf(_, _, _, _, _)
ScanOffsets_WithSelf(k, i, j, m, n) ==
    IF k = 0 THEN <<>>
    ELSE LET found == ScanOffsets_WithSelf(k - 1, i, j, m, n)
             ni == i + OffsetAt(k)[1]
             nj == j + OffsetAt(k)[2]
         IN  IF 0 <= ni /\ ni < m /\ 0 <= nj /\ nj < n
             THEN Append(found, <<ni, nj>>)
             ELSE found

\* get_neighbors skipping every diagonal offset (the 4-neighbourhood).
RECURSIVE ScanOffsets_Orthogonal(_, _, _, _, _)
ScanOffsets_Orthogonal(k, i, j, m, n) ==
    IF k = 0 THEN <<>>
    ELSE LET found == ScanOffsets_Orthogonal(k - 1, i, j, m, n)
             ni == i + OffsetAt(k)[1]
             nj == j + OffsetAt(k)[2]
         IN  IF (OffsetAt(k)[1] = 0) = (OffsetAt(k)[2] = 0) THEN found
             ELSE IF 0 <= ni /\ ni < m /\ 0 <= nj /\ nj < n
                  THEN Append(found, <<ni, nj>>)
                  ELSE found

\* The list `neighbors` after the first k passes through the body of the
\* nested loops over di and dj: (0,0) is skipped by `continue`, the cell
\* (ni, nj) is appended when it lies in [0,M) x [0,N).
RECURSIVE ScanOffsets(_, _, _, _, _)
ScanOffsets(k, i, j, m, n) ==
    IF k = 0 THEN <<>>
    ELSE LET found == ScanOffsets(k - 1, i, j, m, n)
             ni == i + OffsetAt(k)[1]
             nj == j + OffsetAt(k)[2]
         IN  IF OffsetAt(k) = <<0, 0>> THEN found
             ELSE IF 0 <= ni /\ ni < m /\ 0 <= nj /\ nj < n
                  THEN Append(found, <<ni, nj>>)
                  ELSE found

\* get_neighbors(i, j, M, N)
get_neighbors(i, j, m, n) == ScanOffsets(Len(Offsets) * Len(Offsets), i, j, m, n)

\* sum(u[ni, nj] for ni, nj in neighbors)
NeighborSum(grid, nbrs) ==
    The({SumSeq([k \in 1 .. Len(x) |-> grid[x[k]]]) : x \in {nbrs}})

\* The update with the divisor taken to be the actual neighbour count.
NewValue_TrueCount(own, dsum, nbrs, k) ==
    IF Len(nbrs) = 0 THEN RMul(RSub(One, k), own)
    ELSE RAdd(RMul(RSub(One, k), own), RMul(RDiv(k, <<Len(nbrs), 1>>), dsum))

\* The update with the retention factor (1 - K) left out.
NewValue_NoDecay(own, dsum, nbrs, k) ==
    RAdd(own, RMul(RDiv(k, <<Divisor, 1>>), dsum))

\* The update with the inflow subtracted instead of added.
NewValue_Minus(own, dsum, nbrs, k) ==
    RSub(RMul(RSub(One, k), own), RMul(RDiv(k, <<Divisor, 1>>), dsum))

\* The update with the cell's own value counted among the inflow.
NewValue_SelfInflow(own, dsum, nbrs, k) ==
    RAdd(RMul(RSub(One, k), own),
         RMul(RDiv(k, <<Divisor, 1>>), RAdd(dsum, own)))

\* The update with the two weights exchanged.
NewValue_Swapped(own, dsum, nbrs, k) ==
    RAdd(RMul(k, own), RMul(RDiv(RSub(One, k), <<Divisor, 1>>), dsum))

\* (1 - K) * u[i, j] + (K / 8) * diffusion_sum, where own is u[i, j], dsum is
\* diffusion_sum and nbrs is the list it was summed over.
NewValue(own, dsum, nbrs, k) ==
    RAdd(RMul(RSub(One, k), own), RMul(RDiv(k, <<Divisor, 1>>), dsum))

VARIABLES
    M, N, T, K, u0,      \* the arguments of simulate_diffusion
    heap,                \* the arrays that exist: heap[r] is the content of array r
    u, u_new, history,   \* the function's arrays and the list it builds
    t, i, j,             \* its loop variables (-1: not yet bound)
    pos,                 \* cells already visited by the loops over i and j
    neighbors,           \* the list last returned by get_neighbors
    diffusion_sum,       \* the sum last computed from it
    result,              \* the returned list
    pc                   \* "call", "for_t", "for_ij", "done" or "raised"

\* u0, u, u_new and the elements of history and result are references to
\* arrays (indices into heap; 0: not yet bound), so two names may denote the
\* same array and a write through one is seen through the other.
vars == <<M, N, T, K, u0, heap, u, u_new, history, t, i, j, pos,
          neighbors, diffusion_sum, result, pc>>

\* --------------------------------------------------------------- arrays

\* The reference the next new array gets.
NewRef(h) == Len(h) + 1

\* A copy that is a view: the same array under another name.
ndarray_copy_View(h, r) == <<h, r>>

\* r.copy(): a new array with the content of r; <<heap after, new reference>>.
ndarray_copy(h, r) == <<Append(h, h[r]), NewRef(h)>>

\* np.array(r): a new array with the content of r (np.array copies).
np_array(h, r) == <<Append(h, h[r]), NewRef(h)>>

\* An index pair numpy accepts for the array g (no index here is negative).
InRange(g, c) == c \in DOMAIN g

\* ------------------------------------------------------------- the inputs

\* One unit of initial mass: 1.0.
Unit == One

ZeroGrid(m, n) == [c \in Cells(m, n) |-> Zero]

\* The m x n grids of non-negative multiples of Unit holding at most k units.
RECURSIVE GridsUpTo(_, _, _)
GridsUpTo(m, n, k) ==
    IF k = 0 THEN {ZeroGrid(m, n)}
    ELSE LET less == GridsUpTo(m, n, k - 1)
         IN  less \cup {[g EXCEPT ![c] = RAdd(@, Unit)] :
                            g \in less, c \in Cells(m, n)}

\* The m x n grid with every entry 1.0.
UniformGrid(m, n) == [c \in Cells(m, n) |-> Unit]

\* The m x n grids with one negative entry.
NegativeGrids(m, n) ==
    {[ZeroGrid(m, n) EXCEPT ![c] = RSub(Zero, Unit)] : c \in Cells(m, n)}

\* Grids whose shape is not m x n: fewer or more rows, fewer or more columns.
MismatchedGrids(m, n) ==
    {UniformGrid(r, c) : <<r, c>> \in ((1 .. MaxDim) \X (1 .. MaxDim)) \ {<<m, n>>}}

\* The values of K inside [0, 1].
KInRange == {Rat(0, 1), Rat(1, 4), Rat(1, 2), Rat(1, 1)}

\* The values of K outside [0, 1]: nothing rejects them.
KOutOfRange == {Rat(-1, 2), Rat(3, 2)}

\* A name not yet bound to an array.
NoGrid == 0

\* The call simulate_diffusion(M, N, T, u0, K): the caller's array is the
\* only array there is.
Init ==
    /\ M \in 1 .. MaxDim
    /\ N \in 1 .. MaxDim
    /\ T \in 0 .. MaxT
    /\ K \in KInRange \cup KOutOfRange
    /\ \E g \in GridsUpTo(M, N, MaxMass) \cup {UniformGrid(M, N)}
                  \cup NegativeGrids(M, N) \cup MismatchedGrids(M, N) :
           heap = <<g>>
    /\ u0 = 1
    /\ u = NoGrid
    /\ u_new = NoGrid
    /\ history = <<>>
    /\ t = -1
    /\ i = -1
    /\ j = -1
    /\ pos = 0
    /\ neighbors = <<>>
    /\ diffusion_sum = Zero
    /\ result = <<>>
    /\ pc = "call"

\* ------------------------------------------------------------ the actions

\* Begin with the history left empty.
Begin_EmptyHistory ==
    /\ pc = "call"
    /\ LET a == np_array(heap, u0)
       IN  /\ heap' = a[1]
           /\ u' = a[2]
    /\ history' = <<>>
    /\ pc' = "for_t"
    /\ UNCHANGED <<M, N, T, K, u0, u_new, t, i, j, pos,
                   neighbors, diffusion_sum, result>>

\* Begin rejecting a K outside [0, 1].
Begin_ValidatesK ==
    /\ pc = "call"
    /\ IF RLe(Zero, K) /\ RLe(K, One)
       THEN LET a == np_array(heap, u0)
                b == ndarray_copy(a[1], a[2])
            IN  /\ heap' = b[1]
                /\ u' = a[2]
                /\ history' = <<b[2]>>
                /\ pc' = "for_t"
       ELSE /\ pc' = "raised"
            /\ UNCHANGED <<heap, u, history>>
    /\ UNCHANGED <<M, N, T, K, u0, u_new, t, i, j, pos,
                   neighbors, diffusion_sum, result>>

\* Begin rejecting an array whose shape is not M x N.
Begin_ValidatesShape ==
    /\ pc = "call"
    /\ IF DOMAIN heap[u0] = Cells(M, N)
       THEN LET a == np_array(heap, u0)
                b == ndarray_copy(a[1], a[2])
            IN  /\ heap' = b[1]
                /\ u' = a[2]
                /\ history' = <<b[2]>>
                /\ pc' = "for_t"
       ELSE /\ pc' = "raised"
            /\ UNCHANGED <<heap, u, history>>
    /\ UNCHANGED <<M, N, T, K, u0, u_new, t, i, j, pos,
                   neighbors, diffusion_sum, result>>

\* u = np.array(u0); history = [u.copy()]
Begin ==
    /\ pc = "call"
    /\ LET a == np_array(heap, u0)
           b == ndarray_copy(a[1], a[2])
       IN  /\ heap' = b[1]
           /\ u' = a[2]
           /\ history' = <<b[2]>>
    /\ pc' = "for_t"
    /\ UNCHANGED <<M, N, T, K, u0, u_new, t, i, j, pos,
                   neighbors, diffusion_sum, result>>

\* StepBegin looping over range(T + 1).
StepBegin_OneMore ==
    /\ pc = "for_t"
    /\ t + 1 < T + 1
    /\ t' = t + 1
    /\ LET c == ndarray_copy(heap, u)
       IN  /\ heap' = c[1]
           /\ u_new' = c[2]
    /\ pos' = 0
    /\ pc' = "for_ij"
    /\ UNCHANGED <<M, N, T, K, u0, u, history, i, j,
                   neighbors, diffusion_sum, result>>

\* for t in range(T): the next iteration starts; u_new = u.copy()
StepBegin ==
    /\ pc = "for_t"
    /\ t + 1 < T
    /\ t' = t + 1
    /\ LET c == ndarray_copy(heap, u)
       IN  /\ heap' = c[1]
           /\ u_new' = c[2]
    /\ pos' = 0
    /\ pc' = "for_ij"
    /\ UNCHANGED <<M, N, T, K, u0, u, history, i, j,
                   neighbors, diffusion_sum, result>>

\* CellUpdate working in place: the neighbours and the cell's own value are
\* read from u_new, which already holds this step's earlier updates.
CellUpdate_InPlace ==
    /\ pc = "for_ij"
    /\ pos < M * N
    /\ \E nbrs \in {get_neighbors(pos \div N, pos % N, M, N)} :
       LET ci == pos \div N
           cj == pos % N
           readable == \A k \in 1 .. Len(nbrs) : InRange(heap[u_new], nbrs[k])
       IN  /\ i' = ci
           /\ j' = cj
           /\ neighbors' = nbrs
           /\ IF readable /\ InRange(heap[u_new], <<ci, cj>>)
              THEN \E dsum \in {NeighborSum(heap[u_new], nbrs)} :
                       /\ diffusion_sum' = dsum
                       /\ heap' = [heap EXCEPT ![u_new][<<ci, cj>>] =
                                      NewValue(heap[u_new][<<ci, cj>>], dsum, nbrs, K)]
                       /\ pos' = pos + 1
                       /\ pc' = pc
              ELSE /\ diffusion_sum' = IF readable
                                       THEN NeighborSum(heap[u_new], nbrs)
                                       ELSE diffusion_sum
                   /\ pc' = "raised"
                   /\ UNCHANGED <<heap, pos>>
    /\ UNCHANGED <<M, N, T, K, u0, u, u_new, history, t, result>>

\* One pass through the body of the loops over i and j: the next cell in
\* row-major order is bound to (i, j), its neighbours are listed, their values
\* in u are summed and u_new[i, j] is assigned.  An index outside the array
\* raises IndexError: in the sum (diffusion_sum is then not assigned) or at
\* u[i, j]; nothing catches it.
CellUpdate ==
    /\ pc = "for_ij"
    /\ pos < M * N
    /\ \E nbrs \in {get_neighbors(pos \div N, pos % N, M, N)} :
       LET ci == pos \div N
           cj == pos % N
           readable == \A k \in 1 .. Len(nbrs) : InRange(heap[u], nbrs[k])
       IN  /\ i' = ci
           /\ j' = cj
           /\ neighbors' = nbrs
           /\ IF readable /\ InRange(heap[u], <<ci, cj>>)
              THEN \E dsum \in {NeighborSum(heap[u], nbrs)} :
                       /\ diffusion_sum' = dsum
                       /\ heap' = [heap EXCEPT ![u_new][<<ci, cj>>] =
                                      NewValue(heap[u][<<ci, cj>>], dsum, nbrs, K)]
                       /\ pos' = pos + 1
                       /\ pc' = pc
              ELSE /\ diffusion_sum' = IF readable
                                       THEN NeighborSum(heap[u], nbrs)
                                       ELSE diffusion_sum
                   /\ pc' = "raised"
                   /\ UNCHANGED <<heap, pos>>
    /\ UNCHANGED <<M, N, T, K, u0, u, u_new, history, t, result>>

\* The loops over i and j are exhausted: u = u_new; history.append(u.copy())
StepEnd ==
    /\ pc = "for_ij"
    /\ pos = M * N
    /\ u' = u_new
    /\ LET c == ndarray_copy(heap, u_new)
       IN  /\ heap' = c[1]
           /\ history' = Append(history, c[2])
    /\ pc' = "for_t"
    /\ UNCHANGED <<M, N, T, K, u0, u_new, t, i, j, pos,
                   neighbors, diffusion_sum, result>>

\* range(T) is exhausted: return history
Return ==
    /\ pc = "for_t"
    /\ t + 1 >= T
    /\ result' = history
    /\ pc' = "done"
    /\ UNCHANGED <<M, N, T, K, u0, heap, u, u_new, history, t, i, j, pos,
                   neighbors, diffusion_sum>>

Next == Begin \/ StepBegin \/ CellUpdate \/ StepEnd \/ Return

Spec == Init /\ [][Next]_vars

\* The interpreter runs the function's next statement as long as there is one.
FairSpec == Spec /\ WF_vars(Next)

\* --------------------------------------------- vocabulary of the properties

\* The content of Python's history[t] for a list h of snapshots.
Snap(h, s) == heap[h[s + 1]]

\* The content of the caller's array u0.
Initial == heap[u0]

\* The initial grid has the declared shape M x N.
ShapeMatches == DOMAIN Initial = Cells(M, N)

\* The total of an m x n grid.
GridSum(g, m, n) ==
    SumSeq([p \in 1 .. m * n |-> g[<<(p - 1) \div n, (p - 1) % n>>]])

\* The Moore neighbourhood of (ci, cj) inside an m x n grid, as a set.
Moore(ci, cj, m, n) ==
    {c \in Cells(m, n) :
        /\ c # <<ci, cj>>
        /\ Abs(c[1] - ci) <= 1
        /\ Abs(c[2] - cj) <= 1}

Degree(c, m, n) == Cardinality(Moore(c[1], c[2], m, n))

\* The total of g over the Moore neighbourhood of c.
MooreSum(g, c, m, n) ==
    SumSeq([p \in 1 .. m * n |->
               LET d == <<(p - 1) \div n, (p - 1) % n>>
               IN  IF d \in Moore(c[1], c[2], m, n) THEN g[d] ELSE Zero])

\* (1-K) * g[c] + (K/8) * (sum of g over the Moore neighbours of c)
Expected(g, c, m, n, k) ==
    RAdd(RMul(RSub(One, k), g[c]), RMul(RDiv(k, <<8, 1>>), MooreSum(g, c, m, n)))

\* (K/8) * sum over the cells c of (8 - number of neighbours of c) * g[c]
BoundaryDeficit(g, m, n, k) ==
    RMul(RDiv(k, <<8, 1>>),
         SumSeq([p \in 1 .. m * n |->
                    LET d == <<(p - 1) \div n, (p - 1) % n>>
                    IN  RMul(<<8 - Degree(d, m, n), 1>>, g[d])]))

\* The caller contract: non-negative entries and 0 <= K <= 1.
ValidInput ==
    /\ ShapeMatches
    /\ RLe(Zero, K) /\ RLe(K, One)
    /\ \A c \in Cells(M, N) : RLe(Zero, Initial[c])

Returned == pc = "done"

\* The cells of g holding a non-zero value.
Support(g, m, n) == {c \in Cells(m, n) : g[c] # Zero}

\* ------------------------------------------------------------- the claims

\* C1: every snapshot t+1 of the returned history is one step applied to
\* snapshot t: each cell holds (1-K) * old + (K/8) * (sum of old over the
\* cell's in-bounds Moore neighbours), the divisor being 8 for every cell.
C1_EachSnapshotIsOneStep ==
    (Returned /\ ShapeMatches) =>
        \A s \in 0 .. T - 1 : \A c \in Cells(M, N) :
            Snap(result, s + 1)[c] = Expected(Snap(result, s), c, M, N, K)

C1_Witness ==
    /\ Returned /\ ShapeMatches /\ T = 2 /\ M = 3 /\ N = 3 /\ K = Rat(1, 2)
    /\ Snap(result, 1) # Snap(result, 0)
    /\ Snap(result, 2) # Snap(result, 1)
    /\ Snap(result, 2)[<<0, 0>>] # Zero

\* C2: the returned history holds exactly T+1 grids, each of shape M x N,
\* and its element 0 equals u0.
C2_LengthShapeAndFirst ==
    (Returned /\ ShapeMatches) =>
        /\ Len(result) = T + 1
        /\ \A s \in 0 .. T : DOMAIN Snap(result, s) = Cells(M, N)
        /\ Snap(result, 0) = Initial

C2_Witness ==
    /\ Returned /\ ShapeMatches /\ T = 2 /\ Len(result) = 3
    /\ Snap(result, 0) = Initial /\ Snap(result, 2) # Initial

\* C3: the list returned by get_neighbors for the cell (i, j) holds exactly
\* the in-bounds cells (i+di, j+dj), (di, dj) # (0, 0): each once, never
\* (i, j) itself, never a coordinate outside [0,M) x [0,N).
C3_NeighboursExact ==
    i >= 0 =>
        /\ \A a, b \in 1 .. Len(neighbors) : neighbors[a] = neighbors[b] => a = b
        /\ {neighbors[a] : a \in 1 .. Len(neighbors)}
             = {<<i + di, j + dj>> : di \in {-1, 0, 1}, dj \in {-1, 0, 1}}
                 \cap (Cells(M, N) \ {<<i, j>>})

C3_Witness ==
    /\ i = 0 /\ j = 1 /\ M = 2 /\ N = 3
    /\ neighbors = << <<0, 0>>, <<0, 2>>, <<1, 0>>, <<1, 1>>, <<1, 2>> >>

\* C4: for M, N >= 2 a corner cell has 3 neighbours, an edge non-corner cell
\* 5 and an interior cell 8; for M = 1 or N = 1 a cell has at most 2, and the
\* cell of a 1 x 1 grid has none.
C4_NeighbourCounts ==
    i >= 0 =>
        LET onRowEdge == i = 0 \/ i = M - 1
            onColEdge == j = 0 \/ j = N - 1
        IN  /\ (M >= 2 /\ N >= 2 /\ onRowEdge /\ onColEdge)
                  => Len(neighbors) = 3
            /\ (M >= 2 /\ N >= 2 /\ (onRowEdge # onColEdge))
                  => Len(neighbors) = 5
            /\ (M >= 2 /\ N >= 2 /\ ~onRowEdge /\ ~onColEdge)
                  => Len(neighbors) = 8
            /\ (M = 1 \/ N = 1) => Len(neighbors) <= 2
            /\ (M = 1 /\ N = 1) => Len(neighbors) = 0

C4_Witness ==
    /\ M = 3 /\ N = 3 /\ i = 1 /\ j = 1 /\ Len(neighbors) = 8

\* C5 as stated: on valid input every snapshot has the same total as u0.
C5_Original_SumConserved ==
    (Returned /\ ValidInput) =>
        \A s \in 0 .. T : GridSum(Snap(result, s), M, N) = GridSum(Initial, M, N)

\* C5 as amended: on valid input a step lowers the total by exactly
\* (K/8) * sum over the cells of (8 - neighbour count) * value, so the total
\* is conserved only when that deficit is zero.
C5_SumLessBoundaryDeficit ==
    (Returned /\ ValidInput) =>
        \A s \in 0 .. T - 1 :
            GridSum(Snap(result, s + 1), M, N)
              = RSub(GridSum(Snap(result, s), M, N),
                     BoundaryDeficit(Snap(result, s), M, N, K))

C5_Witness ==
    /\ Returned /\ ValidInput /\ T = 2 /\ M = 2 /\ N = 2 /\ K = One
    /\ GridSum(Initial, M, N) = One
    /\ GridSum(Snap(result, 1), M, N) = Rat(3, 8)
    /\ BoundaryDeficit(Initial, M, N, K) = Rat(5, 8)

\* C6: on valid input the totals of the snapshots never increase.
C6_MassNeverIncreases ==
    (Returned /\ ValidInput) =>
        \A s \in 0 .. T - 1 :
            RLe(GridSum(Snap(result, s + 1), M, N), GridSum(Snap(result, s), M, N))

C6_Witness ==
    /\ Returned /\ ValidInput /\ T = 2 /\ K = Rat(1, 4)
    /\ RLt(GridSum(Snap(result, 1), M, N), GridSum(Snap(result, 0), M, N))
    /\ RLt(GridSum(Snap(result, 2), M, N), GridSum(Snap(result, 1), M, N))

\* C7 as stated: on valid input a step keeps the total if and only if every
\* cell of the grid is interior or K = 0, and lowers it strictly otherwise.
C7_Original_EqualIffAllInterior ==
    (Returned /\ ValidInput) =>
        \A s \in 0 .. T - 1 :
            LET before == GridSum(Snap(result, s), M, N)
                after == GridSum(Snap(result, s + 1), M, N)
                keeps == K = Zero \/ \A c \in Cells(M, N) : Degree(c, M, N) = 8
            IN  /\ (after = before) <=> keeps
                /\ ~keeps => RLt(after, before)

\* C7 as amended: on valid input a step keeps the total if and only if K = 0
\* or every cell holding a non-zero value is interior, and lowers it strictly
\* otherwise.
C7_EqualIffMassInterior ==
    (Returned /\ ValidInput) =>
        \A s \in 0 .. T - 1 :
            LET before == GridSum(Snap(result, s), M, N)
                after == GridSum(Snap(result, s + 1), M, N)
                keeps == K = Zero
                           \/ \A c \in Support(Snap(result, s), M, N) :
                                  Degree(c, M, N) = 8
            IN  /\ (after = before) <=> keeps
                /\ ~keeps => RLt(after, before)

C7_Witness ==
    /\ Returned /\ ValidInput /\ T = 2 /\ M = 3 /\ N = 3 /\ K = One
    /\ Support(Initial, M, N) = {<<1, 1>>}
    /\ GridSum(Snap(result, 1), M, N) = GridSum(Initial, M, N)
    /\ RLt(GridSum(Snap(result, 2), M, N), GridSum(Snap(result, 1), M, N))

\* C8: on valid input every entry of every returned snapshot is non-negative.
C8_NonNegative ==
    (Returned /\ ValidInput) =>
        \A s \in 0 .. T : \A c \in Cells(M, N) : RLe(Zero, Snap(result, s)[c])

C8_Witness ==
    /\ Returned /\ ValidInput /\ T = 2 /\ K = One /\ M = 3 /\ N = 3
    /\ Support(Initial, M, N) = {<<0, 0>>}
    /\ Snap(result, 1)[<<0, 0>>] = Zero
    /\ RLt(Zero, Snap(result, 2)[<<0, 0>>])

\* C9: with K = 0 every one of the T+1 returned snapshots equals u0.
C9_ZeroKIsIdentity ==
    (Returned /\ K = Zero) =>
        \A s \in 0 .. T : Snap(result, s) = Initial

C9_Witness ==
    /\ Returned /\ K = Zero /\ T = 2 /\ Len(result) = 3
    /\ Initial = UniformGrid(M, N) /\ M = 3 /\ N = 3
    /\ Snap(result, 2) = Initial

\* C10: with K = 1 and u0 zero except for the value v at one cell c, after
\* one step c holds 0, every in-bounds neighbour of c holds v/8, every other
\* cell holds 0 and the total is (neighbour count of c)/8 * v: 1 for v = 1 at
\* the centre of a 3 x 3 grid, 0.375 for v = 1 at the corner (0,0) of a
\* 2 x 2 grid.
C10_SinglePeakAtKOne ==
    (Returned /\ ShapeMatches /\ K = One /\ T >= 1
       /\ Cardinality(Support(Initial, M, N)) = 1) =>
        LET c == CHOOSE d \in Support(Initial, M, N) : TRUE
            v == Initial[c]
            g == Snap(result, 1)
        IN  /\ g[c] = Zero
            /\ \A d \in Moore(c[1], c[2], M, N) : g[d] = RDiv(v, <<8, 1>>)
            /\ \A d \in Cells(M, N) \ (Moore(c[1], c[2], M, N) \cup {c}) :
                   g[d] = Zero
            /\ GridSum(g, M, N) = RMul(Rat(Degree(c, M, N), 8), v)
            /\ (M = 3 /\ N = 3 /\ c = <<1, 1>> /\ v = One)
                   => GridSum(g, M, N) = One
            /\ (M = 2 /\ N = 2 /\ c = <<0, 0>> /\ v = One)
                   => GridSum(g, M, N) = Rat(3, 8)

C10_Witness ==
    /\ Returned /\ ShapeMatches /\ K = One /\ T >= 1 /\ M = 2 /\ N = 2
    /\ Support(Initial, M, N) = {<<0, 0>>} /\ Initial[<<0, 0>>] = One
    /\ Snap(result, 1) = [c \in Cells(2, 2) |->
                             IF c = <<0, 0>> THEN Zero ELSE Rat(1, 8)]

\* The cell the loops over i and j visit after p cells.
CellAt(p) == <<p \div N, p % N>>

\* The initial grid lacks a row or a column of the declared M x N.
Undersized == ~(Cells(M, N) \subseteq DOMAIN Initial)

Raised == pc = "raised"

\* C11: the snapshots in history are arrays of their own, none of them u0,
\* u or u_new; no step changes the content of a snapshot already appended,
\* removes it or replaces it, and no step changes the caller's array u0.
C11_SnapshotsImmutable ==
    /\ [](\A a \in 1 .. Len(history) :
             /\ history[a] \notin {u0, u, u_new}
             /\ \A b \in 1 .. Len(history) : history[a] = history[b] => a = b)
    /\ [][/\ u0' = u0
          /\ heap'[u0] = heap[u0]
          /\ \A a \in 1 .. Len(history) :
                 /\ Len(history') >= a
                 /\ history'[a] = history[a]
                 /\ heap'[history[a]] = heap[history[a]]]_vars

C11_Witness ==
    /\ pc = "for_ij" /\ ShapeMatches /\ t = 1 /\ pos >= 1 /\ Len(history) = 2
    /\ heap[u_new] # heap[history[2]]
    /\ heap[history[2]] # heap[history[1]]
    /\ heap[history[1]] = Initial /\ history[1] # u0

\* C12 as stated: an initial grid whose shape is not M x N never gives a
\* returned history, and an initial grid of shape M x N never raises.
C12_Original_MismatchAlwaysFails ==
    /\ ~ShapeMatches => ~Returned
    /\ ShapeMatches => ~Raised

\* C12 as amended: the call raises only when T >= 1 and the initial grid lacks
\* a row or a column of M x N, and then during step 0, and such a call never
\* returns; every other call raises nothing, and a returned history of a
\* larger grid has T+1 grids of the grid's own shape whose cells outside the
\* M x N block are those of u0.
C12_FailsOnlyWhenUndersizedAndStepping ==
    /\ Raised => (T >= 1 /\ Undersized /\ t = 0 /\ Len(history) = 1)
    /\ (T >= 1 /\ Undersized) => ~Returned
    /\ (Returned /\ ~ShapeMatches /\ ~Undersized) =>
           /\ Len(result) = T + 1
           /\ \A s \in 0 .. T :
                  /\ DOMAIN Snap(result, s) = DOMAIN Initial
                  /\ \A c \in DOMAIN Initial \ Cells(M, N) :
                         Snap(result, s)[c] = Initial[c]

C12_Witness ==
    /\ Raised /\ M = 3 /\ N = 3 /\ DOMAIN Initial = Cells(2, 3)
    /\ i = 1 /\ j = 0 /\ T = 2

\* C13: on an M x N grid no K raises an error, and the returned history has
\* T+1 snapshots each following the update formula, for K < 0 and K > 1 as
\* for any other K.
C13_KNeverValidated ==
    ShapeMatches =>
        /\ ~Raised
        /\ Returned =>
               /\ Len(result) = T + 1
               /\ \A s \in 0 .. T - 1 : \A c \in Cells(M, N) :
                      Snap(result, s + 1)[c]
                        = RAdd(RMul(RSub(One, K), Snap(result, s)[c]),
                               RMul(RDiv(K, <<8, 1>>),
                                    MooreSum(Snap(result, s), c, M, N)))

C13_Witness ==
    /\ Returned /\ ShapeMatches /\ K = Rat(-1, 2) /\ T = 2
    /\ \A c \in Cells(M, N) : RLe(Zero, Initial[c])
    /\ \E c \in Cells(M, N) : RLt(Snap(result, 1)[c], Zero)
    /\ RLt(GridSum(Initial, M, N), GridSum(Snap(result, 1), M, N))

\* C14: a cell update leaves u and every other array alone and changes only
\* the visited cell of u_new, to the update computed from u at that cell; so
\* when the loops over i and j are exhausted every cell of u_new holds the
\* update of the unchanged u at that cell, whatever was visited before it.
C14_ReadsOldWritesNew ==
    /\ []((pc = "for_ij" /\ pos = M * N /\ ShapeMatches) =>
            \A c \in Cells(M, N) :
                heap[u_new][c] = Expected(heap[u], c, M, N, K))
    /\ [][(pc = "for_ij" /\ pc' = "for_ij" /\ ShapeMatches) =>
            /\ u' = u /\ u_new' = u_new /\ u_new # u
            /\ \A r \in 1 .. Len(heap) : r # u_new => heap'[r] = heap[r]
            /\ \A c \in Cells(M, N) \ {<<i', j'>>} :
                   heap'[u_new][c] = heap[u_new][c]
            /\ heap[u_new][<<i', j'>>] = heap[u][<<i', j'>>]
            /\ heap'[u_new][<<i', j'>>]
                 = Expected(heap[u], <<i', j'>>, M, N, K)]_vars

C14_Witness ==
    /\ pc = "for_ij" /\ ShapeMatches /\ pos = 1 /\ N >= 2 /\ t = 1
    /\ heap[u_new][<<0, 0>>] # heap[u][<<0, 0>>]
    /\ heap[u][<<0, 1>>] # Zero

\* C15: on an M x N grid the call returns; until then t goes through
\* 0 .. T-1 in sequence, each step visits the M*N cells once each in row-major
\* order, leaving every other cell of u_new as it was, and is followed by one
\* append, so the history returned after T steps has T+1 elements.
C15_ReturnsAfterTSteps ==
    /\ ShapeMatches ~> Returned
    /\ []((Returned /\ ShapeMatches) =>
            /\ t = T - 1
            /\ Len(result) = T + 1
            /\ T >= 1 => pos = M * N)
    /\ [][ShapeMatches =>
            /\ t' # t => (t' = t + 1 /\ t' < T /\ pos' = 0 /\ Len(history) = t' + 1)
            /\ (t' = t /\ pos' # pos) =>
                   /\ pos < M * N /\ pos' = pos + 1
                   /\ <<i', j'>> = CellAt(pos)
                   /\ \A c \in Cells(M, N) \ {CellAt(pos)} :
                          heap'[u_new][c] = heap[u_new][c]
            /\ Len(history') # Len(history) =>
                   /\ Len(history') = Len(history) + 1
                   /\ Len(history') = t + 2
                   /\ (Len(history) >= 1 => (pos = M * N /\ pc = "for_ij"))]_vars

C15_Witness ==
    /\ Returned /\ ShapeMatches /\ T = 2 /\ M = 3 /\ N = 3
    /\ t = 1 /\ pos = 9 /\ Len(result) = 3

====
